---------------------------- MODULE Spec2Model ----------------------------
(***************************************************************************)
(* VectorizeDocs: the job coordinator (python_worker.py), the tender and   *)
(* document orchestrator (processor.py) and the embedding consumer         *)
(* (gpu_worker.py), over the relational job table, the broker queue        *)
(* "jobs.python", the in-process embedding queue of every worker process   *)
(* and the Mongo vector collection.                                        *)
(*                                                                         *)
(* Every worker process runs one on_message coroutine at a time            *)
(* (prefetch_count = 1) and one gpu_worker thread with its own             *)
(* embedding_queue; Postgres and Mongo are shared by all processes.        *)
(*                                                                         *)
(* Modelled environment: the broker may deliver a message twice and queues *)
(* a negatively acknowledged message again (on_message's docstring); a     *)
(* worker process does not crash; the statements of on_message's own       *)
(* bookkeeping (claim_job, fail_job, reset_job_to_pending) succeed, while  *)
(* everything inside its try block may raise: process_single_tender on a   *)
(* payload without tender_id, and complete_job.  Every call the            *)
(* orchestrator and the consumer wrap in try/except may raise.             *)
(*                                                                         *)
(* Steps are cut at the accesses to shared state (the jobs table, the      *)
(* broker, the embedding queue, Mongo); local work is part of the step     *)
(* that ends with the next shared access.                                  *)
(*                                                                         *)
(* Specifications: Spec is the running pipeline and FairSpec adds the      *)
(* fairness of the gpu_worker thread; SpecStop adds the shutdown of        *)
(* worker processes (start_worker's finally block); SpecChunk follows one  *)
(* call of split_text_to_subchunks, SpecPdf one call of process_pdf,       *)
(* SpecRange the batch loop of one document, SpecOcr the OCR and           *)
(* translation stage of one batch, SpecScan the workers of its scanned     *)
(* pages and SpecPositions one call of elements_to_positions, each on      *)
(* every input up to the bounds.                                           *)
(***************************************************************************)
EXTENDS Integers, Sequences, FiniteSets, TLC

\* ------------------------------------------------------------------ bounds
NumWorkers == 2        \* worker processes
MaxDup == 1            \* duplicate deliveries the broker may make
MaxDbFail == 1         \* transient failures of complete_job that are injected
QueueCap == 2          \* capacity of the embedding queue in the model
MaxLen == 5            \* longest text handed to split_text_to_subchunks
MaxWindow == 3         \* largest chunk_size
MaxOverlap == 3        \* largest overlap
MaxIter == 8           \* iterations of a loop that does not advance that are followed
MaxPages == 4          \* most pages of a PDF handed to process_pdf
MaxJobs == 11          \* most scanned pages handed to the OCR and translation stage
MaxElems == 4          \* elements of one page given to elements_to_positions
MaxScanned == 2        \* scanned pages whose workers run side by side
MaxDocPages == 41      \* page counts 1..MaxDocPages (and 100) of a document that is batched

\* ------------------------------------------------------- program constants
MAX_ATTEMPTS == 5
SmallBatch == 5
LargeBatch == 20
PageKBLimit == 250
KB == 1024
MAX_PROCESSES_GROQ == 5
MAX_PROCESSES_DEEPSEEK == 10
RETRIES == 3
DELAY == 2

Workers == 1..NumWorkers

\* Job ids that messages name: "j1" has a row in the jobs table, "j0" has none.
JobIds == {"j0", "j1"}
NoRow == [status |-> "missing"]
NoJob == "none"
Null == "null"

\* ---------------------------------------------------------------- documents
\* A PDF in object storage: its page count, its size in bytes and the pages
\* whose extraction yields at least one chunk.
Pdf(pages, bytes, text) == [pages |-> pages, bytes |-> bytes, text |-> text]

PdfShapes ==
    {Pdf(0, 10 * KB, {})}
    \cup {Pdf(3, 300 * KB, t) : t \in {{}, {0}}}
    \cup {Pdf(7, 7 * 1000 * KB, t) : t \in {{}, {0}, {6}, {0, 6}}}

\* What list_s3_pdfs may return for the tender: any one PDF, or two PDFs.
Tenders ==
    {<<s>> : s \in PdfShapes} \cup {<<Pdf(3, 300 * KB, {0}), Pdf(0, 10 * KB, {})>>}

\* Payload kinds of a job row: a dict with tender_id, a dict without it, and
\* a string that is not JSON.
Payloads == {"ok", "nokey", "badjson"}

Max(a, b) == IF a >= b THEN a ELSE b
Min(a, b) == IF a <= b THEN a ELSE b

VARIABLES
    jobs,       \* Postgres: job id -> row; python_result is <<>> (NULL) or <<result>>
    broker,     \* RabbitMQ: job id -> number of messages waiting in jobs.python
    dups,       \* duplicate deliveries made so far
    dbFails,    \* transient complete_job failures injected so far
    pdfs,       \* S3: the tender's PDFs, in listing order
    pc,         \* worker -> position of its on_message coroutine
    cur,        \* worker -> job id of the message it holds (unacknowledged)
    attempts,   \* worker -> the attempts value RETURNING gave it
    result,     \* worker -> the result dict of the running process_single_tender
    docIdx,     \* worker -> index of the pdf_key being handled
    start,      \* worker -> start page of the next batch
    queue,      \* worker -> its embedding_queue
    task,       \* worker -> <<task>> its gpu_worker holds between insert and flag, or <<>>
    recs,       \* Mongo: document -> embedding records, each <<start page, run>>
    flag,       \* Mongo: document -> who set document_complete ("unset" if nobody)
    runNo,      \* history: document -> number of delete_many clean-ups so far
    produced,   \* history: document -> batches that produced chunks in the current run
    raises,     \* history: job id -> number of attempts whose processing raised
    loop,       \* worker -> its event loop: "up", "join" (start_worker's finally), "exit"
    gpu,        \* worker -> its gpu_worker thread: "run", or "done" after the sentinel
    chunker,    \* a call of split_text_to_subchunks: its arguments and locals
    pdfrun,     \* a call of process_pdf: the PDF's pages and the locals
    ranger,     \* the batch loop of one document: its size and the ranges so far
    ocr,        \* the OCR and translation stage of process_pdf: jobs and semaphores
    scan,       \* the page workers of scanned pages: attempts and results
    posrun      \* a call of elements_to_positions: the elements and the locals

vars == <<jobs, broker, dups, dbFails, pdfs, pc, cur, attempts, result, docIdx,
          start, queue, task, recs, flag, runNo, produced, raises, loop, gpu,
          chunker, pdfrun, ranger, ocr, scan, posrun>>

jobVars == <<jobs, raises>>
brokerVars == <<broker, dups>>
orchVars == <<result, docIdx, start>>
mongoVars == <<recs, flag, runNo, produced>>
gpuVars == <<queue, task>>
lifeVars == <<loop, gpu>>

\* What no step of a running pipeline changes: the listing in S3, the life
\* cycle of the worker processes, and the function calls that are specified
\* on their own.
funVars == <<chunker, pdfrun, ranger, ocr, scan, posrun>>
restVars == <<pdfs, lifeVars, funVars>>
pipeVars == <<jobs, broker, dups, dbFails, pdfs, pc, cur, attempts, result, docIdx,
              start, queue, task, recs, flag, runNo, produced, raises, loop, gpu>>

\* Document names: positions in the longest listing.
DocIds == 1..2

NewResult == [processed_docs |-> 0, skipped_docs |-> 0, empty_docs |-> 0,
              errors |-> <<>>]

NewRow(p) == [status |-> "pending", attempts |-> 0, payload |-> p,
              python_result |-> <<>>, last_error |-> Null]

\* No call of split_text_to_subchunks, of process_pdf is being followed.
NoCall == [pc |-> "none"]
NoRun == [pc |-> "none"]

Init ==
    /\ chunker = NoCall
    /\ pdfrun = NoRun
    /\ ranger = NoRun
    /\ ocr = NoRun
    /\ scan = NoRun
    /\ posrun = NoRun
    /\ \E p \in Payloads : jobs = [j \in JobIds |-> IF j = "j1" THEN NewRow(p) ELSE NoRow]
    /\ broker = [j \in JobIds |-> 1]
    /\ dups = 0
    /\ dbFails = 0
    /\ pdfs \in Tenders
    /\ pc = [w \in Workers |-> "idle"]
    /\ cur = [w \in Workers |-> NoJob]
    /\ attempts = [w \in Workers |-> 0]
    /\ result = [w \in Workers |-> NewResult]
    /\ docIdx = [w \in Workers |-> 0]
    /\ start = [w \in Workers |-> 0]
    /\ queue = [w \in Workers |-> <<>>]
    /\ task = [w \in Workers |-> <<>>]
    /\ recs = [d \in DocIds |-> {}]
    /\ flag = [d \in DocIds |-> "unset"]
    /\ runNo = [d \in DocIds |-> 0]
    /\ produced = [d \in DocIds |-> {}]
    /\ raises = [j \in JobIds |-> 0]
    /\ loop = [w \in Workers |-> "up"]
    /\ gpu = [w \in Workers |-> "run"]

\* ------------------------------------------------------- relational store
\* Mutants of the WHERE clause: a claim that also takes a running row, and a
\* claim by id alone.
ClaimableWhileRunning(j) == jobs[j].status \in {"pending", "running"}
ClaimableById(j) == jobs[j].status # "missing"

\* Mutant of the WHERE clause: a finished row is claimed again.
ClaimableWhenFinished(j) == jobs[j].status \in {"pending", "completed", "failed"}

\* claim_job's WHERE clause: the row exists and is pending.
Claimable(j) == jobs[j].status = "pending"

\* Mutant of the claim: the row is taken without counting the attempt.
ClaimedRowNoCount(row) == [row EXCEPT !.status = "running"]

\* claim_job's UPDATE ... SET status = running, attempts = attempts + 1.
ClaimedRow(row) == [row EXCEPT !.status = "running", !.attempts = @ + 1]

\* reset_job_to_pending: UPDATE ... SET status = pending WHERE id = j.
ResetRow(row) ==
    IF row.status = "missing" THEN row ELSE [row EXCEPT !.status = "pending"]

\* complete_job: UPDATE ... SET python_result = r, status = completed WHERE id = j.
CompletedRow(row, r) ==
    IF row.status = "missing" THEN row
    ELSE [row EXCEPT !.status = "completed", !.python_result = <<r>>]

\* fail_job: UPDATE ... SET status = failed, last_error = e WHERE id = j.
FailedRow(row, e) ==
    IF row.status = "missing" THEN row
    ELSE [row EXCEPT !.status = "failed", !.last_error = e]

\* Mutant of the retry decision: off by one.
ExhaustedLate(n) == n > MAX_ATTEMPTS

\* on_message's retry decision: attempts >= MAX_ATTEMPTS.
Exhausted(n) == n >= MAX_ATTEMPTS

\* ------------------------------------------------------- the event loop
\* Mutant of the shutdown: the coroutine keeps running during the join.
RunningDuringJoin(w) == loop[w] \in {"up", "join"}

\* start_worker: the on_message coroutine runs on the process's event loop,
\* which start_worker's finally block holds from stop_gpu_worker() on (put
\* and join are blocking calls made on the loop's thread).
Running(w) == loop[w] = "up"

\* ------------------------------------------------------------ the broker
\* A message for job j is delivered a second time (at-least-once delivery).
Duplicate(j) ==
    /\ dups < MaxDup
    /\ dups' = dups + 1
    /\ broker' = [broker EXCEPT ![j] = @ + 1]
    /\ UNCHANGED <<jobVars, dbFails, restVars, pc, cur, attempts, orchVars, gpuVars, mongoVars>>

\* queue.consume(on_message): an idle consumer is handed the next message.
Receive(w, j) ==
    /\ Running(w)
    /\ pc[w] = "idle"
    /\ broker[j] > 0
    /\ broker' = [broker EXCEPT ![j] = @ - 1]
    /\ cur' = [cur EXCEPT ![w] = j]
    /\ pc' = [pc EXCEPT ![w] = "claim"]
    /\ UNCHANGED <<jobVars, dups, dbFails, restVars, attempts, orchVars, gpuVars, mongoVars>>

\* The coroutine ends: its locals are gone and the consumer is idle again.
Finish(w) ==
    /\ pc' = [pc EXCEPT ![w] = "idle"]
    /\ cur' = [cur EXCEPT ![w] = NoJob]
    /\ attempts' = [attempts EXCEPT ![w] = 0]
    /\ result' = [result EXCEPT ![w] = NewResult]
    /\ docIdx' = [docIdx EXCEPT ![w] = 0]
    /\ start' = [start EXCEPT ![w] = 0]

\* message.process() exits normally: the message is acknowledged.
Ack(w) ==
    /\ Running(w)
    /\ pc[w] = "ack"
    /\ Finish(w)
    /\ UNCHANGED <<jobVars, brokerVars, dbFails, restVars, gpuVars, mongoVars>>

\* message.process() exits by the re-raised exception: the message is
\* negatively acknowledged and the broker queues it again.
Nack(w) ==
    /\ Running(w)
    /\ pc[w] = "nack"
    /\ broker' = [broker EXCEPT ![cur[w]] = @ + 1]
    /\ Finish(w)
    /\ UNCHANGED <<jobVars, dups, dbFails, restVars, gpuVars, mongoVars>>

\* ------------------------------------------------------ the job coordinator
\* on_message, lines 92-101: claim_job, and the early return when nothing
\* was claimed.
Claim(w) ==
    /\ Running(w)
    /\ pc[w] = "claim"
    /\ IF Claimable(cur[w])
       THEN /\ jobs' = [jobs EXCEPT ![cur[w]] = ClaimedRow(@)]
            /\ attempts' = [attempts EXCEPT ![w] = jobs[cur[w]].attempts + 1]
            /\ pc' = [pc EXCEPT ![w] = "start"]
       ELSE /\ pc' = [pc EXCEPT ![w] = "drop"]
            /\ UNCHANGED <<jobs, attempts>>
    /\ UNCHANGED <<raises, brokerVars, dbFails, restVars, cur, orchVars, gpuVars, mongoVars>>

\* Mutant of the early return: the unclaimed message is raised back to the
\* broker instead of being acknowledged.
AckDropRequeues(w) ==
    /\ Running(w)
    /\ pc[w] = "drop"
    /\ broker' = [broker EXCEPT ![cur[w]] = @ + 1]
    /\ Finish(w)
    /\ UNCHANGED <<jobVars, dups, dbFails, restVars, gpuVars, mongoVars>>

\* on_message, lines 98-101: `if not claimed: conn.close(); return`.
AckDrop(w) ==
    /\ Running(w)
    /\ pc[w] = "drop"
    /\ Finish(w)
    /\ UNCHANGED <<jobVars, brokerVars, dbFails, restVars, gpuVars, mongoVars>>

\* Mutant of the pdf_key loop: the loop ends after its first document.
GoDocAbort(w, i) ==
    IF i > 1
    THEN /\ pc' = [pc EXCEPT ![w] = "complete"]
         /\ docIdx' = [docIdx EXCEPT ![w] = 0]
    ELSE /\ pc' = [pc EXCEPT ![w] = "check"]
         /\ docIdx' = [docIdx EXCEPT ![w] = i]

\* `continue` of the pdf_key loop: on to document i, or return result.
GoDoc(w, i) ==
    IF i > Len(pdfs)
    THEN /\ pc' = [pc EXCEPT ![w] = "complete"]
         /\ docIdx' = [docIdx EXCEPT ![w] = 0]
    ELSE /\ pc' = [pc EXCEPT ![w] = "check"]
         /\ docIdx' = [docIdx EXCEPT ![w] = i]

AddError(r, e) == [r EXCEPT !.errors = Append(@, e)]

\* on_message, lines 105-119, and process_single_tender, lines 27-47: the
\* payload is parsed, tender_id is read and the tender's PDFs are listed.
Begin(w) ==
    /\ Running(w)
    /\ pc[w] = "start"
    /\ LET p == jobs[cur[w]].payload IN
       \/ /\ p = "badjson"
          /\ jobs' = [jobs EXCEPT ![cur[w]] = FailedRow(@, "invalid payload JSON")]
          /\ pc' = [pc EXCEPT ![w] = "ack"]
          /\ UNCHANGED <<raises, result, docIdx>>
       \/ /\ p = "nokey"
          /\ raises' = [raises EXCEPT ![cur[w]] = @ + 1]
          /\ pc' = [pc EXCEPT ![w] = "except"]
          /\ UNCHANGED <<jobs, result, docIdx>>
       \/ /\ p = "ok"
          /\ result' = [result EXCEPT ![w] = AddError(NewResult, <<"list_s3_pdfs", 0>>)]
          /\ pc' = [pc EXCEPT ![w] = "complete"]
          /\ UNCHANGED <<jobVars, docIdx>>
       \/ /\ p = "ok"
          /\ result' = [result EXCEPT ![w] = NewResult]
          /\ GoDoc(w, 1)
          /\ UNCHANGED jobVars
    /\ UNCHANGED <<brokerVars, dbFails, restVars, cur, attempts, start, gpuVars, mongoVars>>

\* on_message, lines 120-125: complete_job, which may raise before its
\* UPDATE is applied (json.dumps, a lost connection).
Complete(w) ==
    /\ Running(w)
    /\ pc[w] = "complete"
    /\ \/ /\ jobs' = [jobs EXCEPT ![cur[w]] = CompletedRow(@, result[w])]
          /\ pc' = [pc EXCEPT ![w] = "ack"]
          /\ UNCHANGED <<raises, dbFails>>
       \/ /\ dbFails < MaxDbFail
          /\ dbFails' = dbFails + 1
          /\ raises' = [raises EXCEPT ![cur[w]] = @ + 1]
          /\ pc' = [pc EXCEPT ![w] = "except"]
          /\ UNCHANGED jobs
    /\ UNCHANGED <<brokerVars, restVars, cur, attempts, orchVars, gpuVars, mongoVars>>

\* Mutant of the retry branch: the exception is re-raised without the reset.
OnExceptionNoReset(w) ==
    /\ Running(w)
    /\ pc[w] = "except"
    /\ IF Exhausted(attempts[w])
       THEN /\ jobs' = [jobs EXCEPT ![cur[w]] = FailedRow(@, "error")]
            /\ pc' = [pc EXCEPT ![w] = "ack"]
       ELSE /\ pc' = [pc EXCEPT ![w] = "nack"]
            /\ UNCHANGED jobs
    /\ UNCHANGED <<raises, brokerVars, dbFails, restVars, cur, attempts, orchVars, gpuVars, mongoVars>>

\* on_message, lines 127-143: fail the job for good, or reset it to pending
\* and re-raise.
OnException(w) ==
    /\ Running(w)
    /\ pc[w] = "except"
    /\ IF Exhausted(attempts[w])
       THEN /\ jobs' = [jobs EXCEPT ![cur[w]] = FailedRow(@, "error")]
            /\ pc' = [pc EXCEPT ![w] = "ack"]
       ELSE /\ jobs' = [jobs EXCEPT ![cur[w]] = ResetRow(@)]
            /\ pc' = [pc EXCEPT ![w] = "nack"]
    /\ UNCHANGED <<raises, brokerVars, dbFails, restVars, cur, attempts, orchVars, gpuVars, mongoVars>>

\* ------------------------------------------------- the document orchestrator
\* processor.py, lines 135-137: 20 pages a batch when the file has less than
\* 250 KB a page, 5 otherwise (bytes / 1024 / pages < 250, without rounding).
BatchSize(pdf) ==
    IF pdf.bytes < PageKBLimit * KB * Max(pdf.pages, 1) THEN LargeBatch ELSE SmallBatch

\* Mutant of the range's end: it is not cut at the last page.
BatchEndNoMin(pdf, s) == s + BatchSize(pdf)

\* processor.py, lines 154-155.
BatchEnd(pdf, s) == Min(s + BatchSize(pdf), pdf.pages)
IsLast(pdf, s) == BatchEnd(pdf, s) >= pdf.pages

\* process_pdf_batch(pdf_bytes, start, end) returns chunks: some page of the
\* range yields text.
BatchHasChunks(pdf, s) == \E p \in pdf.text : s <= p /\ p < BatchEnd(pdf, s)

\* Mutant of the completion check: no document is found complete.
IsCompleteNever(d) == FALSE

\* vector_collection.find_one({..., "document_complete": True}).
IsComplete(d) == flag[d] # "unset"

\* The work item put on the embedding queue: the document, the batch (its
\* chunks stand for the records they become) and is_last_batch; `run` is
\* history, the clean-up count of the document when the item was made.
Item(d, s, last) == [doc |-> d, start |-> s, is_last |-> last, run |-> runNo[d]]

\* processor.py, lines 53-84: the completion check.
Check(w) ==
    /\ Running(w)
    /\ pc[w] = "check"
    /\ LET d == docIdx[w] IN
       \/ /\ result' = [result EXCEPT ![w] = AddError(@, <<"mongo_check", d>>)]
          /\ GoDoc(w, d + 1)
       \/ /\ IsComplete(d)
          /\ result' = [result EXCEPT ![w].skipped_docs = @ + 1]
          /\ GoDoc(w, d + 1)
       \/ /\ ~IsComplete(d)
          /\ pc' = [pc EXCEPT ![w] = "clean"]
          /\ UNCHANGED <<result, docIdx>>
    /\ UNCHANGED <<jobVars, brokerVars, dbFails, restVars, cur, attempts, start, gpuVars, mongoVars>>

\* Mutant of the clean-up: after a delete_many that raised, the error is
\* recorded and the document is processed all the same.
CleanKeepsGoing(w) ==
    /\ Running(w)
    /\ pc[w] = "clean"
    /\ LET d == docIdx[w] IN
       \/ /\ result' = [result EXCEPT ![w] = AddError(@, <<"mongo_check", d>>)]
          /\ pc' = [pc EXCEPT ![w] = "batch"]
          /\ start' = [start EXCEPT ![w] = 0]
          /\ UNCHANGED <<docIdx, mongoVars>>
       \/ /\ recs' = [recs EXCEPT ![d] = {}]
          /\ flag' = [flag EXCEPT ![d] = "unset"]
          /\ runNo' = [runNo EXCEPT ![d] = @ + 1]
          /\ produced' = [produced EXCEPT ![d] = {}]
          /\ \/ /\ pdfs[d].pages = 0
                /\ result' = [result EXCEPT ![w].empty_docs = @ + 1]
                /\ pc' = [pc EXCEPT ![w] = "mark_empty"]
                /\ UNCHANGED <<docIdx, start>>
             \/ /\ pdfs[d].pages > 0
                /\ pc' = [pc EXCEPT ![w] = "batch"]
                /\ start' = [start EXCEPT ![w] = 0]
                /\ UNCHANGED <<result, docIdx>>
    /\ UNCHANGED <<jobVars, brokerVars, dbFails, restVars, cur, attempts, gpuVars>>

\* processor.py, lines 71-131: delete_many of the document's records, the
\* fetch of the PDF and the page count.
Clean(w) ==
    /\ Running(w)
    /\ pc[w] = "clean"
    /\ LET d == docIdx[w] IN
       \/ /\ result' = [result EXCEPT ![w] = AddError(@, <<"mongo_check", d>>)]
          /\ GoDoc(w, d + 1)
          /\ UNCHANGED <<start, mongoVars>>
       \/ /\ recs' = [recs EXCEPT ![d] = {}]
          /\ flag' = [flag EXCEPT ![d] = "unset"]
          /\ runNo' = [runNo EXCEPT ![d] = @ + 1]
          /\ produced' = [produced EXCEPT ![d] = {}]
          /\ \/ /\ \E e \in {"fetch", "pagecount"} :
                       result' = [result EXCEPT ![w] = AddError(@, <<e, d>>)]
                /\ GoDoc(w, d + 1)
                /\ UNCHANGED start
             \/ /\ pdfs[d].pages = 0
                /\ result' = [result EXCEPT ![w].empty_docs = @ + 1]
                /\ pc' = [pc EXCEPT ![w] = "mark_empty"]
                /\ UNCHANGED <<docIdx, start>>
             \/ /\ pdfs[d].pages > 0
                /\ pc' = [pc EXCEPT ![w] = "batch"]
                /\ start' = [start EXCEPT ![w] = 0]
                /\ UNCHANGED <<result, docIdx>>
    /\ UNCHANGED <<jobVars, brokerVars, dbFails, restVars, cur, attempts, gpuVars>>

\* processor.py, lines 104-126: an empty PDF is marked complete.
MarkEmpty(w) ==
    /\ Running(w)
    /\ pc[w] = "mark_empty"
    /\ LET d == docIdx[w] IN
       \/ /\ flag' = [flag EXCEPT ![d] = "orchestrator"]
          /\ GoDoc(w, d + 1)
          /\ UNCHANGED result
       \/ /\ result' = [result EXCEPT ![w] = AddError(@, <<"mark_empty_complete", d>>)]
          /\ GoDoc(w, d + 1)
          /\ UNCHANGED flag
    /\ UNCHANGED <<jobVars, brokerVars, dbFails, restVars, cur, attempts, start, gpuVars,
                   recs, runNo, produced>>

\* The batch loop goes on to the next range, or ends: processed_docs += 1.
NextBatch(w, r) ==
    LET d == docIdx[w] IN
    IF IsLast(pdfs[d], start[w])
    THEN /\ result' = [result EXCEPT ![w] = [r EXCEPT !.processed_docs = @ + 1]]
         /\ start' = [start EXCEPT ![w] = 0]
         /\ GoDoc(w, d + 1)
    ELSE /\ result' = [result EXCEPT ![w] = r]
         /\ start' = [start EXCEPT ![w] = start[w] + BatchSize(pdfs[d])]
         /\ UNCHANGED <<pc, docIdx>>

\* Mutant of the queue: a put is never held up.
HasRoomAlways(w) == TRUE

\* embedding_queue = Queue(maxsize=...): a put returns once the queue holds
\* fewer items than its capacity.
HasRoom(w) == Len(queue[w]) < QueueCap

\* processor.py, lines 152-239: one iteration of the batch loop.
Batch(w) ==
    /\ Running(w)
    /\ pc[w] = "batch"
    /\ LET d == docIdx[w]
           pdf == pdfs[d]
           s == start[w]
       IN
       \* process_pdf_batch raises: the document is given up
       \/ /\ result' = [result EXCEPT ![w] = AddError(@, <<"document", d>>)]
          /\ start' = [start EXCEPT ![w] = 0]
          /\ GoDoc(w, d + 1)
          /\ UNCHANGED <<queue, flag, produced>>
       \* no chunks, not the last batch
       \/ /\ ~BatchHasChunks(pdf, s)
          /\ ~IsLast(pdf, s)
          /\ NextBatch(w, result[w])
          /\ UNCHANGED <<queue, flag, produced>>
       \* no chunks, the last batch: empty_docs += 1 and the flag is set
       \/ /\ ~BatchHasChunks(pdf, s)
          /\ IsLast(pdf, s)
          /\ \/ /\ flag' = [flag EXCEPT ![d] = "orchestrator"]
                /\ NextBatch(w, [result[w] EXCEPT !.empty_docs = @ + 1])
             \/ /\ NextBatch(w, AddError([result[w] EXCEPT !.empty_docs = @ + 1],
                                         <<"mark_empty_final", d>>))
                /\ UNCHANGED flag
          /\ UNCHANGED <<queue, produced>>
       \* chunks: embedding_queue.put blocks while the queue is full
       \/ /\ BatchHasChunks(pdf, s)
          /\ HasRoom(w)
          /\ queue' = [queue EXCEPT ![w] = Append(@, Item(d, s, IsLast(pdf, s)))]
          /\ produced' = [produced EXCEPT ![d] = @ \cup {s}]
          /\ NextBatch(w, result[w])
          /\ UNCHANGED flag
    /\ UNCHANGED <<jobVars, brokerVars, dbFails, restVars, cur, attempts, task, recs, runNo>>

\* ------------------------------------------------- the embedding consumer
\* store_embeddings_in_db: insert_many, whose exception is printed and
\* swallowed.
StoreEmbeddings(d, rec, ok) ==
    recs' = [recs EXCEPT ![d] = IF ok THEN @ \cup {rec} ELSE @]

\* STOP_SIGNAL = object(): the sentinel, an item no producer makes (documents
\* are numbered from 1).
STOP_SIGNAL == [doc |-> 0, start |-> 0, is_last |-> FALSE, run |-> 0]

\* Mutant of the consumer's except clause: the exception ends the thread.
OnTaskErrorDies(w) == gpu' = [gpu EXCEPT ![w] = "done"]

\* gpu_worker, lines 47-51: `except Exception as e: print(...)`, then
\* task_done() and the next get().
OnTaskError(w) == UNCHANGED gpu

\* gpu_worker, lines 19-37: get a task, embed it and store the embeddings.
GpuStore(w) ==
    /\ gpu[w] = "run"
    /\ task[w] = <<>>
    /\ queue[w] # <<>>
    /\ Head(queue[w]) # STOP_SIGNAL
    /\ LET t == Head(queue[w]) IN
       /\ queue' = [queue EXCEPT ![w] = Tail(@)]
       /\ \/ \* embed_batch raises: the exception is printed, the task is dropped
             /\ OnTaskError(w)
             /\ UNCHANGED <<recs, task>>
          \/ \E ok \in BOOLEAN :
                /\ StoreEmbeddings(t.doc, <<t.start, t.run>>, ok)
                /\ task' = [task EXCEPT ![w] =
                              IF t.is_last THEN <<[doc |-> t.doc, inserted |-> ok]>> ELSE <<>>]
                /\ UNCHANGED gpu
    /\ UNCHANGED <<jobVars, brokerVars, dbFails, pdfs, funVars, loop, pc, cur, attempts, orchVars,
                   flag, runNo, produced>>

\* gpu_worker, lines 39-48: the last batch marks the document complete.
GpuFlag(w) ==
    /\ gpu[w] = "run"
    /\ task[w] # <<>>
    /\ task' = [task EXCEPT ![w] = <<>>]
    /\ \/ /\ flag' = [flag EXCEPT ![task[w][1].doc] = "consumer"]
          /\ UNCHANGED gpu
       \/ \* update_one raises
          /\ OnTaskError(w)
          /\ UNCHANGED flag
    /\ UNCHANGED <<jobVars, brokerVars, dbFails, pdfs, funVars, loop, pc, cur, attempts, orchVars,
                   queue, recs, runNo, produced>>

\* gpu_worker, lines 19-23: the sentinel is dequeued and the loop breaks.
GpuStop(w) ==
    /\ gpu[w] = "run"
    /\ task[w] = <<>>
    /\ queue[w] # <<>>
    /\ Head(queue[w]) = STOP_SIGNAL
    /\ queue' = [queue EXCEPT ![w] = Tail(@)]
    /\ gpu' = [gpu EXCEPT ![w] = "done"]
    /\ UNCHANGED <<jobVars, brokerVars, dbFails, pdfs, funVars, loop, pc, cur, attempts, orchVars,
                   task, mongoVars>>

\* ------------------------------------------------------------- the shutdown
\* start_worker's finally, line 164: stop_gpu_worker() puts the sentinel, a
\* blocking put as any other.
StopGpuWorker(w) ==
    /\ loop[w] = "up"
    /\ HasRoom(w)
    /\ queue' = [queue EXCEPT ![w] = Append(@, STOP_SIGNAL)]
    /\ loop' = [loop EXCEPT ![w] = "join"]
    /\ UNCHANGED <<jobVars, brokerVars, dbFails, pdfs, funVars, gpu, pc, cur, attempts, orchVars,
                   task, mongoVars>>

\* start_worker's finally, line 165: join_gpu_worker returns when the thread
\* has ended; the process exits, the coroutine is cancelled and the broker
\* queues the message it held unacknowledged again.
JoinGpuWorker(w) ==
    /\ loop[w] = "join"
    /\ gpu[w] = "done"
    /\ loop' = [loop EXCEPT ![w] = "exit"]
    /\ broker' = IF cur[w] = NoJob THEN broker ELSE [broker EXCEPT ![cur[w]] = @ + 1]
    /\ Finish(w)
    /\ UNCHANGED <<jobVars, dups, dbFails, pdfs, funVars, gpu, gpuVars, mongoVars>>

\* ---------------------------------------------------------- specification
Next ==
    \/ \E j \in JobIds : Duplicate(j)
    \/ \E w \in Workers, j \in JobIds : Receive(w, j)
    \/ \E w \in Workers : Claim(w)
    \/ \E w \in Workers : AckDrop(w)
    \/ \E w \in Workers : Begin(w)
    \/ \E w \in Workers : Check(w)
    \/ \E w \in Workers : Clean(w)
    \/ \E w \in Workers : MarkEmpty(w)
    \/ \E w \in Workers : Batch(w)
    \/ \E w \in Workers : Complete(w)
    \/ \E w \in Workers : OnException(w)
    \/ \E w \in Workers : Ack(w)
    \/ \E w \in Workers : Nack(w)
    \/ \E w \in Workers : GpuStore(w)
    \/ \E w \in Workers : GpuFlag(w)

Spec == Init /\ [][Next]_vars

\* gpu_worker is a thread of its own: it keeps taking steps whatever the
\* coroutine on the event loop does.
FairSpec ==
    Spec /\ \A w \in Workers : WF_vars(GpuStore(w) \/ GpuFlag(w))

\* The pipeline with worker processes that may be shut down.  It is run on
\* the listings with more than one work item or more than one document.
InitStop ==
    /\ Init
    /\ jobs["j1"].payload = "ok"
    /\ pdfs \in {<<Pdf(7, 7 * 1000 * KB, {0, 6})>>,
                 <<Pdf(3, 300 * KB, {0}), Pdf(0, 10 * KB, {})>>}

NextStop ==
    \/ Next
    \/ \E w \in Workers : StopGpuWorker(w)
    \/ \E w \in Workers : GpuStop(w)
    \/ \E w \in Workers : JoinGpuWorker(w)

SpecStop == InitStop /\ [][NextStop]_vars


\* ---------------------------------------------- split_text_to_subchunks
\* utils/chunking.py.  A text is a sequence of characters; indices in the
\* code are 0-based, so text[i] of the code is text[i + 1] here.  The fields
\* page, position, type and is_scanned are copied into every sub-chunk from
\* the arguments and are left out.
Alphabet == {"a", "b", " ", "\n"}
Texts == UNION {[1..n -> Alphabet] : n \in 0..MaxLen}

\* str.strip() removes white space; the window is extended up to one of
\* [" ", "\n"].
IsSpace(c) == c \in {" ", "\n", "\t"}
IsBreak(c) == c \in {" ", "\n"}

\* text[a:b] for 0 <= a.
Slice(t, a, b) == SubSeq(t, a + 1, Min(b, Len(t)))

RECURSIVE LStrip(_)
LStrip(t) == IF t # <<>> /\ IsSpace(Head(t)) THEN LStrip(Tail(t)) ELSE t

RECURSIVE RStrip(_)
RStrip(t) == IF t # <<>> /\ IsSpace(t[Len(t)]) THEN RStrip(SubSeq(t, 1, Len(t) - 1)) ELSE t

\* Mutant of the trimming: the slice is kept as it is.
NoStrip(t) == t

\* text[start:end].strip()
Strip(t) == RStrip(LStrip(t))

\* Mutant of the window: it has no width.
EmptyWindow(st, size) == st

\* end = start + chunk_size
FirstEnd(st, size) == st + size

\* while end < text_len and text[end] not in [" ", "\n"]: end += 1
RECURSIVE ExtendEnd(_, _)
ExtendEnd(t, e) == IF e < Len(t) /\ ~IsBreak(t[e + 1]) THEN ExtendEnd(t, e + 1) ELSE e

\* chunking.py, lines 7-11: the end of the window that starts at st.
WindowEnd(t, st, size) ==
    LET e == FirstEnd(st, size) IN
    IF e < Len(t) THEN ExtendEnd(t, e) ELSE e

\* Mutant of the advance: the next window starts overlap characters back.
NextStartBack(e, overlap) == Max(e - overlap, 0)

\* start = max(end - overlap, end) if end - overlap < end else end
NextStart(e, overlap) == IF e - overlap < e THEN Max(e - overlap, e) ELSE e

SubChunk(pos, data) == [sub_position |-> pos, data |-> data]

\* The arguments of a call and the locals at the `while` test.
NewCall(t, size, overlap) ==
    [pc |-> "loop", text |-> t, chunk_size |-> size, overlap |-> overlap,
     start |-> 0, end |-> 0, sub_pos |-> 1, sub_chunks |-> <<>>, iters |-> 0]

Calls == {NewCall(t, size, o) : t \in Texts, size \in 0..MaxWindow, o \in 0..MaxOverlap}

\* chunking.py, lines 6-24: one iteration of the loop.
SplitStep ==
    /\ chunker.pc = "loop"
    /\ chunker.start < Len(chunker.text)
    /\ chunker.iters < MaxIter
    /\ LET c == chunker
           e == WindowEnd(c.text, c.start, c.chunk_size)
           sub_text == Strip(Slice(c.text, c.start, e))
           st == NextStart(e, c.overlap)
       IN chunker' = [c EXCEPT
              !.end = e,
              !.sub_chunks = IF sub_text # <<>> THEN Append(@, SubChunk(c.sub_pos, sub_text))
                             ELSE @,
              !.sub_pos = IF sub_text # <<>> THEN @ + 1 ELSE @,
              !.start = st,
              !.iters = @ + 1,
              !.pc = IF st <= e /\ e >= Len(c.text) THEN "done" ELSE "loop"]
    /\ UNCHANGED <<pipeVars, pdfrun, ranger, ocr, scan, posrun>>

\* chunking.py, lines 6 and 25: the `while` test fails and sub_chunks is
\* returned.
SplitReturn ==
    /\ chunker.pc = "loop"
    /\ chunker.start >= Len(chunker.text)
    /\ chunker' = [chunker EXCEPT !.pc = "done"]
    /\ UNCHANGED <<pipeVars, pdfrun, ranger, ocr, scan, posrun>>

\* The pipeline is at rest: no job, no message, no document.
AtRest ==
    /\ jobs = [j \in JobIds |-> NoRow]
    /\ broker = [j \in JobIds |-> 0]
    /\ dups = 0
    /\ dbFails = 0
    /\ pdfs = <<>>
    /\ pc = [w \in Workers |-> "idle"]
    /\ cur = [w \in Workers |-> NoJob]
    /\ attempts = [w \in Workers |-> 0]
    /\ result = [w \in Workers |-> NewResult]
    /\ docIdx = [w \in Workers |-> 0]
    /\ start = [w \in Workers |-> 0]
    /\ queue = [w \in Workers |-> <<>>]
    /\ task = [w \in Workers |-> <<>>]
    /\ recs = [d \in DocIds |-> {}]
    /\ flag = [d \in DocIds |-> "unset"]
    /\ runNo = [d \in DocIds |-> 0]
    /\ produced = [d \in DocIds |-> {}]
    /\ raises = [j \in JobIds |-> 0]
    /\ loop = [w \in Workers |-> "up"]
    /\ gpu = [w \in Workers |-> "run"]

\* The function is called on any text with any chunk_size and overlap.
InitChunk ==
    /\ chunker \in Calls
    /\ pdfrun = NoRun
    /\ ranger = NoRun
    /\ ocr = NoRun
    /\ scan = NoRun
    /\ posrun = NoRun
    /\ AtRest

NextChunk == SplitStep \/ SplitReturn

SpecChunk == InitChunk /\ [][NextChunk]_vars

\* ------------------------------------------------------------ process_pdf
\* utils/pdf_processing.py.  A page is "scanned" when is_scanned_page finds
\* fewer than 10 characters of text on it, "digital" otherwise; a chunk is
\* known by its page (1-based) and its is_scanned field, and the chunks of a
\* digital page stand for the sub-chunks of its positions.
PageKinds == {"scanned", "digital"}
PdfPages == UNION {[1..n -> PageKinds] : n \in 0..MaxPages}

PageChunk(page, scanned) == [page |-> page, is_scanned |-> scanned]

\* pdf_processing.py, lines 34-41: the PDF is opened.
NewRun(pages) ==
    [pc |-> "pages", pages |-> pages, i |-> 0, scanned_jobs |-> <<>>,
     all_sub_chunks |-> <<>>, scanned_pages |-> 0, regular_pages |-> 0]

\* groq_worker, then deepseek_worker, for every scanned job in order: OCR,
\* translation and split_text_to_subchunks(..., is_scanned=True).
RECURSIVE OcrChunks(_)
OcrChunks(scanned_jobs) ==
    IF scanned_jobs = <<>> THEN <<>>
    ELSE <<PageChunk(Head(scanned_jobs) + 1, TRUE)>> \o OcrChunks(Tail(scanned_jobs))

\* pdf_processing.py, lines 44-62: one page of the loop.  For a scanned page
\* the loop continues; the append to scanned_jobs is commented out.
PdfPage ==
    /\ pdfrun.pc = "pages"
    /\ pdfrun.i < Len(pdfrun.pages)
    /\ pdfrun' = [pdfrun EXCEPT
          !.i = @ + 1,
          !.all_sub_chunks = IF pdfrun.pages[pdfrun.i + 1] = "scanned" THEN @
                             ELSE Append(@, PageChunk(pdfrun.i + 1, FALSE))]
    /\ UNCHANGED <<pipeVars, chunker, ranger, ocr, scan, posrun>>

\* pdf_processing.py, lines 64-103: the counts, the OCR and translation of
\* the scanned jobs, and the returned dict.
PdfReturn ==
    /\ pdfrun.pc = "pages"
    /\ pdfrun.i = Len(pdfrun.pages)
    /\ pdfrun' = [pdfrun EXCEPT
          !.pc = "done",
          !.scanned_pages = Len(pdfrun.scanned_jobs),
          !.regular_pages = Len(pdfrun.pages) - Len(pdfrun.scanned_jobs),
          !.all_sub_chunks = @ \o OcrChunks(pdfrun.scanned_jobs)]
    /\ UNCHANGED <<pipeVars, chunker, ranger, ocr, scan, posrun>>

\* process_pdf is called on any PDF of scanned and digital pages.
InitPdf ==
    /\ pdfrun \in {NewRun(pages) : pages \in PdfPages}
    /\ chunker = NoCall
    /\ ranger = NoRun
    /\ ocr = NoRun
    /\ scan = NoRun
    /\ posrun = NoRun
    /\ AtRest

NextPdf == PdfPage \/ PdfReturn

SpecPdf == InitPdf /\ [][NextPdf]_vars

\* ------------------------------------------------------- the batch loop
\* processor.py, lines 133-168, for one document on its own: the batch size
\* and the page ranges handed to process_pdf_batch, one range a step.
DocPageCounts == (1..MaxDocPages) \cup {100}

\* Sizes of a document of n pages: far below, one byte below and exactly at
\* 250 KB a page.
DocSizes(n) == {n * KB, n * PageKBLimit * KB - 1, n * PageKBLimit * KB}

PageRange(s, e, last) == [start |-> s, end |-> e, is_last |-> last]

NewBatchLoop(pdf) == [pc |-> "loop", pdf |-> pdf, start |-> 0, ranges |-> <<>>]

\* One iteration of `for start in range(0, total_pages, batch_size)`: the
\* range is handed to the batch pipeline, which may raise and end the loop.
RangeStep ==
    /\ ranger.pc = "loop"
    /\ ranger.start < ranger.pdf.pages
    /\ \/ ranger' = [ranger EXCEPT
             !.ranges = Append(@, PageRange(ranger.start, BatchEnd(ranger.pdf, ranger.start),
                                            IsLast(ranger.pdf, ranger.start))),
             !.start = @ + BatchSize(ranger.pdf)]
       \/ ranger' = [ranger EXCEPT !.pc = "raised"]
    /\ UNCHANGED <<pipeVars, chunker, pdfrun, ocr, scan, posrun>>

\* The range is exhausted and the loop ends.
RangeEnd ==
    /\ ranger.pc = "loop"
    /\ ranger.start >= ranger.pdf.pages
    /\ ranger' = [ranger EXCEPT !.pc = "done"]
    /\ UNCHANGED <<pipeVars, chunker, pdfrun, ocr, scan, posrun>>

InitRange ==
    /\ \E n \in DocPageCounts : \E b \in DocSizes(n) :
          ranger = NewBatchLoop(Pdf(n, b, {}))
    /\ chunker = NoCall
    /\ pdfrun = NoRun
    /\ ocr = NoRun
    /\ scan = NoRun
    /\ posrun = NoRun
    /\ AtRest

NextRange == RangeStep \/ RangeEnd

SpecRange == InitRange /\ [][NextRange]_vars

\* ------------------------------------------- the OCR and translation stage
\* pdf_processing.py, lines 17-31 and 67-90: every scanned job gets a
\* groq_worker task, all gathered, and then every OCR result gets a
\* deepseek_worker task, all gathered.  A task is "wait" before it holds its
\* semaphore, "run" while its call is in the executor, "done" after it.
\* The tasks of a gather come to their `async with` in the order of the list.
Jobs(n) == 1..n

NewStage(n) ==
    [pc |-> "groq", n |-> n,
     groq |-> [j \in Jobs(n) |-> "wait"], groq_semaphore |-> MAX_PROCESSES_GROQ,
     deepseek |-> [j \in Jobs(n) |-> "wait"], deepseek_semaphore |-> MAX_PROCESSES_DEEPSEEK]

\* Mutant of the semaphore: it never makes a task wait.
FreeAlways(value) == TRUE

\* asyncio.Semaphore: `async with` goes on when the value is positive.
Free(value) == value > 0

\* The task next in line among those that wait.
NextWaiting(tasks, j) == tasks[j] = "wait" /\ \A i \in 1..(j - 1) : tasks[i] # "wait"

\* groq_worker, lines 18-20: the semaphore is taken and the OCR call starts.
GroqStart(j) ==
    /\ j \in Jobs(ocr.n)
    /\ ocr.pc = "groq"
    /\ NextWaiting(ocr.groq, j)
    /\ Free(ocr.groq_semaphore)
    /\ ocr' = [ocr EXCEPT !.groq[j] = "run", !.groq_semaphore = @ - 1]
    /\ UNCHANGED <<pipeVars, chunker, pdfrun, ranger, scan, posrun>>

\* groq_worker, line 20: the OCR call returns and the semaphore is released.
GroqReturn(j) ==
    /\ j \in Jobs(ocr.n)
    /\ ocr.pc = "groq"
    /\ ocr.groq[j] = "run"
    /\ ocr' = [ocr EXCEPT !.groq[j] = "done", !.groq_semaphore = @ + 1]
    /\ UNCHANGED <<pipeVars, chunker, pdfrun, ranger, scan, posrun>>

\* process_pdf, lines 69-79: the gather of the OCR tasks returns; without
\* scanned jobs there is nothing to translate.
GroqGathered ==
    /\ ocr.pc = "groq"
    /\ \A j \in Jobs(ocr.n) : ocr.groq[j] = "done"
    /\ ocr' = [ocr EXCEPT !.pc = IF ocr.n = 0 THEN "done" ELSE "deepseek"]
    /\ UNCHANGED <<pipeVars, chunker, pdfrun, ranger, scan, posrun>>

\* deepseek_worker, lines 24-26: the semaphore is taken and the translation
\* call starts.
DeepseekStart(j) ==
    /\ j \in Jobs(ocr.n)
    /\ ocr.pc = "deepseek"
    /\ NextWaiting(ocr.deepseek, j)
    /\ Free(ocr.deepseek_semaphore)
    /\ ocr' = [ocr EXCEPT !.deepseek[j] = "run", !.deepseek_semaphore = @ - 1]
    /\ UNCHANGED <<pipeVars, chunker, pdfrun, ranger, scan, posrun>>

\* deepseek_worker, lines 26-31: the translation returns, is split into
\* sub-chunks and the semaphore is released.
DeepseekReturn(j) ==
    /\ j \in Jobs(ocr.n)
    /\ ocr.pc = "deepseek"
    /\ ocr.deepseek[j] = "run"
    /\ ocr' = [ocr EXCEPT !.deepseek[j] = "done", !.deepseek_semaphore = @ + 1]
    /\ UNCHANGED <<pipeVars, chunker, pdfrun, ranger, scan, posrun>>

\* process_pdf, lines 88-90: the gather of the translation tasks returns.
DeepseekGathered ==
    /\ ocr.pc = "deepseek"
    /\ \A j \in Jobs(ocr.n) : ocr.deepseek[j] = "done"
    /\ ocr' = [ocr EXCEPT !.pc = "done"]
    /\ UNCHANGED <<pipeVars, chunker, pdfrun, ranger, scan, posrun>>

\* The stage is entered with any number of scanned jobs.
InitOcr ==
    /\ \E n \in 0..MaxJobs : ocr = NewStage(n)
    /\ chunker = NoCall
    /\ pdfrun = NoRun
    /\ ranger = NoRun
    /\ scan = NoRun
    /\ posrun = NoRun
    /\ AtRest

NextOcr ==
    \/ \E j \in 1..MaxJobs : GroqStart(j)
    \/ \E j \in 1..MaxJobs : GroqReturn(j)
    \/ GroqGathered
    \/ \E j \in 1..MaxJobs : DeepseekStart(j)
    \/ \E j \in 1..MaxJobs : DeepseekReturn(j)
    \/ DeepseekGathered

SpecOcr == InitOcr /\ [][NextOcr]_vars

\* ------------------------------------------------ the scanned-page workers
\* utils/scanned_helpers.py: process_scanned_page_worker (OCR by query_groq)
\* and deepseek_translate_worker (translation by query_deepseek) for every
\* scanned page, each page in a thread of the executor.  An external call
\* succeeds or fails; a text is "text" or the "error" placeholder the worker
\* puts in its place ("none" before).
NewPage ==
    [pc |-> "ocr", raw_content |-> "none", ocr_calls |-> 0,
     translated_text |-> "none", attempt |-> 0, slept |-> <<>>, chunks |-> FALSE]

NewScan(n) == [pc |-> "pages", page |-> [p \in 1..n |-> NewPage]]

\* process_scanned_page_worker, lines 84-107: query_groq is called once; when
\* it raises, raw_content is the Groq error placeholder.
OcrCall(p) ==
    /\ p \in DOMAIN scan.page
    /\ scan.page[p].pc = "ocr"
    /\ \E ok \in BOOLEAN :
          scan' = [scan EXCEPT
              !.page[p].ocr_calls = @ + 1,
              !.page[p].raw_content = IF ok THEN "text" ELSE "error",
              !.page[p].attempt = 1,
              !.page[p].pc = "translate"]
    /\ UNCHANGED <<pipeVars, chunker, pdfrun, ranger, ocr, posrun>>

\* query_deepseek, lines 40-60, called by deepseek_translate_worker: one
\* attempt of the loop.  A failed attempt before the last one sleeps
\* delay * attempt; the last one re-raises and the worker returns the
\* DeepSeek error placeholder.  deepseek_worker splits the text it gets.
TranslateCall(p) ==
    /\ p \in DOMAIN scan.page
    /\ scan.page[p].pc = "translate"
    /\ LET a == scan.page[p].attempt IN
       \/ scan' = [scan EXCEPT !.page[p].translated_text = "text",
                               !.page[p].chunks = TRUE,
                               !.page[p].pc = "done"]
       \/ /\ a < RETRIES
          /\ scan' = [scan EXCEPT !.page[p].slept = Append(@, DELAY * a),
                                  !.page[p].pc = "sleep"]
       \/ /\ a >= RETRIES
          /\ scan' = [scan EXCEPT !.page[p].translated_text = "error",
                                  !.page[p].chunks = TRUE,
                                  !.page[p].pc = "done"]
    /\ UNCHANGED <<pipeVars, chunker, pdfrun, ranger, ocr, posrun>>

\* query_deepseek, line 58: time.sleep returns and the next attempt begins.
Wake(p) ==
    /\ p \in DOMAIN scan.page
    /\ scan.page[p].pc = "sleep"
    /\ scan' = [scan EXCEPT !.page[p].attempt = @ + 1, !.page[p].pc = "translate"]
    /\ UNCHANGED <<pipeVars, chunker, pdfrun, ranger, ocr, posrun>>

InitScan ==
    /\ \E n \in 1..MaxScanned : scan = NewScan(n)
    /\ chunker = NoCall
    /\ pdfrun = NoRun
    /\ ranger = NoRun
    /\ ocr = NoRun
    /\ posrun = NoRun
    /\ AtRest

NextScan ==
    \/ \E p \in 1..MaxScanned : OcrCall(p)
    \/ \E p \in 1..MaxScanned : TranslateCall(p)
    \/ \E p \in 1..MaxScanned : Wake(p)

SpecScan == InitScan /\ [][NextScan]_vars

\* --------------------------------------------------- elements_to_positions
\* utils/regular_helpers.py, lines 31-47.  An element is what
\* extract_page_content builds: a line of text (words joined by spaces, so
\* without a newline) or a table (rows joined by newlines).  A content is the
\* sequence of its lines, separated by "\n".
None == [type |-> "none"]

ElementContents(type) ==
    IF type = "text" THEN {<<"a">>, <<"b">>}
    ELSE {<<"r">>, <<"r", "\n", "s">>}

Elements ==
    UNION {[type : {t}, content : ElementContents(t)] : t \in {"text", "table"}}

ElementLists == UNION {[1..n -> Elements] : n \in 0..MaxElems}

NewPosition(el, pos_counter) ==
    [type |-> el.type, content |-> el.content, position |-> pos_counter]

\* no element goes on with the position being built
MergesNever(el, current) == FALSE

\* line 39: the element goes on with the position being built
Merges(el, current) == el.type = "text" /\ current.type = "text"

\* line 40: current["content"] += "\n" + el["content"]
Joined(content, more) == content \o <<"\n">> \o more

NewPositions(elements) ==
    [pc |-> "loop", elements |-> elements, i |-> 1,
     positions |-> <<>>, pos_counter |-> 1, current |-> None]

\* lines 35-44: one iteration of `for el in elements`
PositionsStep ==
    /\ posrun.pc = "loop"
    /\ posrun.i <= Len(posrun.elements)
    /\ LET el == posrun.elements[posrun.i]
           current == posrun.current IN
       IF current = None
       THEN posrun' = [posrun EXCEPT !.current = NewPosition(el, posrun.pos_counter),
                                     !.i = @ + 1]
       ELSE IF Merges(el, current)
       THEN posrun' = [posrun EXCEPT !.current.content = Joined(@, el.content),
                                     !.i = @ + 1]
       ELSE posrun' = [posrun EXCEPT
                !.positions = Append(@, current),
                !.pos_counter = @ + 1,
                !.current = NewPosition(el, posrun.pos_counter + 1),
                !.i = @ + 1]
    /\ UNCHANGED <<pipeVars, chunker, pdfrun, ranger, ocr, scan>>

\* lines 45-47: the loop has ended
PositionsReturn ==
    /\ posrun.pc = "loop"
    /\ posrun.i > Len(posrun.elements)
    /\ posrun' = [posrun EXCEPT
          !.positions = IF posrun.current # None THEN Append(@, posrun.current) ELSE @,
          !.pc = "done"]
    /\ UNCHANGED <<pipeVars, chunker, pdfrun, ranger, ocr, scan>>

InitPositions ==
    /\ \E elements \in ElementLists : posrun = NewPositions(elements)
    /\ chunker = NoCall
    /\ pdfrun = NoRun
    /\ ranger = NoRun
    /\ ocr = NoRun
    /\ scan = NoRun
    /\ AtRest

NextPositions == PositionsStep \/ PositionsReturn

SpecPositions == InitPositions /\ [][NextPositions]_vars

\* ------------------------------------------------------------------ claims
\* Worker w is between a successful claim_job for job j and its matching
\* complete_job, fail_job or reset_job_to_pending.
HoldPcs == {"start", "check", "clean", "mark_empty", "batch", "complete", "except"}
Holds(w, j) == cur[w] = j /\ pc[w] \in HoldPcs
Holders(j) == {w \in Workers : Holds(w, j)}

\* C1: under any interleaving of deliveries, duplicates and redeliveries, at
\* most one worker at a time is between a successful claim of a job and its
\* matching complete, fail or reset.
C1_MutualExclusion == \A j \in JobIds : Cardinality(Holders(j)) <= 1

\* C1's case: a worker holds the job on a later attempt while another worker,
\* handed a message for the same job, was refused.
C1_Witness ==
    \E w1, w2 \in Workers :
        /\ w1 # w2
        /\ Holds(w1, "j1")
        /\ jobs["j1"].attempts >= 2
        /\ cur[w2] = "j1"
        /\ pc[w2] = "drop"

\* C2: of the workers that call claim_job on one pending job, exactly one is
\* given the row: a row is running exactly when one worker was given it, that
\* worker was returned the row's attempts (one more than before the claim),
\* and every other caller got None.
C2_ClaimExactlyOne ==
    \A j \in JobIds :
        /\ jobs[j].status = "running" =>
              /\ Cardinality(Holders(j)) = 1
              /\ \A w \in Holders(j) : attempts[w] = jobs[j].attempts
        /\ jobs[j].status # "running" => Holders(j) = {}
        /\ jobs[j].status # "missing" =>
              jobs[j].attempts = raises[j] +
                 (IF \/ jobs[j].status = "completed"
                     \/ \E w \in Holders(j) : pc[w] # "except"
                     \/ jobs[j].status = "failed" /\ jobs[j].payload = "badjson"
                  THEN 1 ELSE 0)

\* C2's case: two workers called claim_job on the pending job; the first
\* claim went to one, which has not moved on yet, and the other got None.
C2_Witness ==
    \E w1, w2 \in Workers :
        /\ w1 # w2
        /\ cur[w1] = "j1" /\ pc[w1] = "start"
        /\ attempts[w1] = 1 /\ jobs["j1"].attempts = 1
        /\ cur[w2] = "j1" /\ pc[w2] = "drop"

\* C3: the consumer sets a document's completion flag only when the insert of
\* the document's last batch succeeded; a failed insert leaves the flag unset.
C3_FlagOnlyAfterInsert ==
    [][\A w \in Workers :
          (/\ task[w] # <<>>
           /\ task'[w] = <<>>
           /\ flag[task[w][1].doc] # "consumer"
           /\ flag'[task[w][1].doc] = "consumer")
          => task[w][1].inserted]_vars

\* C4: whenever a document's completion flag is set, every batch of the
\* document that produced chunks in the current attempt is persisted (so none
\* waits in a queue and none was lost).
C4_CompleteImpliesPersisted ==
    \A d \in DocIds :
        flag[d] # "unset" => \A b \in produced[d] : <<b, runNo[d]>> \in recs[d]

\* The embedding queues are drained and the consumers are between tasks.
Drained == \A w \in Workers : queue[w] = <<>> /\ task[w] = <<>>

\* The job completed and its stored result reports every listed document
\* processed and no error.
CompletedNormally ==
    /\ jobs["j1"].status = "completed"
    /\ jobs["j1"].python_result # <<>>
    /\ jobs["j1"].python_result[1].processed_docs = Len(pdfs)
    /\ jobs["j1"].python_result[1].errors = <<>>

\* C5: after a document was processed a second time, by a run that completed
\* normally, once the queues are drained every record the store holds for the
\* document is one of that run: no record of the first run remains or was
\* added after the second run's clean-up.
C5_NoStaleRecords ==
    \A d \in 1..Len(pdfs) :
        (runNo[d] >= 2 /\ CompletedNormally /\ Drained)
        => \A r \in recs[d] : r[2] = runNo[d]

C6_CompletedAfterRetry ==
    /\ jobs["j1"].status = "completed"
    /\ raises["j1"] >= 1
    /\ jobs["j1"].python_result # <<>>

\* C7: a message for a job id whose row is missing or not pending is
\* acknowledged and changes nothing: the row, the document store and the
\* queues stay as they are, the orchestrator is not entered and the message
\* does not go back to the broker.
C7_UnclaimedIsNoOp ==
    [][\A w \in Workers :
          /\ (pc[w] = "claim" /\ pc'[w] # "claim" /\ jobs[cur[w]].status # "pending")
                => /\ pc'[w] = "drop"
                   /\ UNCHANGED <<jobs, broker, queue, task, recs, flag, result, docIdx, start>>
          /\ (pc[w] = "drop" /\ pc'[w] # "drop")
                => /\ pc'[w] = "idle"
                   /\ cur'[w] = NoJob
                   /\ result[w] = NewResult
                   /\ UNCHANGED <<jobs, broker, queue, task, recs, flag>>]_vars

\* C7's case: one worker dropped a message for the id without a row while
\* another dropped a message for the completed job.
C7_Witness ==
    \E w1, w2 \in Workers :
        /\ pc[w1] = "drop" /\ jobs[cur[w1]].status = "missing"
        /\ pc[w2] = "drop" /\ jobs[cur[w2]].status = "completed"

\* C7's other cases: a message dropped for a running and for a failed job.
C7_DropRunning == \E w \in Workers : pc[w] = "drop" /\ jobs[cur[w]].status = "running"
C7_DropFailed == \E w \in Workers : pc[w] = "drop" /\ jobs[cur[w]].status = "failed"

C9_LegalTransitions ==
    [][\A j \in JobIds :
          jobs'[j] # jobs[j] =>
             \/ /\ jobs[j].status = "pending"
                /\ jobs'[j].status = "running"
                /\ \E w \in Workers : pc[w] = "claim" /\ cur[w] = j /\ pc'[w] = "start"
             \/ /\ jobs[j].status = "running"
                /\ jobs'[j].status \in {"completed", "failed", "pending"}
                /\ \E w \in Workers : Holds(w, j) /\ pc'[w] \in {"ack", "nack"}]_vars

\* C9's case: the job went pending -> running -> pending -> running ->
\* completed.
C9_Witness ==
    /\ jobs["j1"].status = "completed"
    /\ jobs["j1"].attempts >= 2

\* C10: the orchestrator sets the completion flag only for a document of
\* which no batch produced chunks in the current attempt.
C10_OrchestratorFlagsOnlyEmpty ==
    \A d \in DocIds : flag[d] = "orchestrator" => produced[d] = {}

\* The positions of process_single_tender's pdf_key loop.
DocPcs == {"check", "clean", "mark_empty", "batch"}
ListingFailed(r) == \E i \in 1..Len(r.errors) : r.errors[i][1] = "list_s3_pdfs"

\* C11: a job whose listing of the tender's PDFs failed does not end in
\* status completed for that attempt.
C11_ListingFailureNotCompleted ==
    \A j \in JobIds :
        jobs[j].status = "completed" => ~ListingFailed(jobs[j].python_result[1])

\* C12: a failure while handling document d is appended to the result's error
\* list under d, the loop goes on to document d + 1 (or returns the result
\* after the last document), and no step of the loop raises out of
\* process_single_tender.
C12_DocFailureIsolated ==
    [][\A w \in Workers :
          pc[w] \in DocPcs =>
              /\ pc'[w] # "except"
              /\ Len(result'[w].errors) >= Len(result[w].errors)
              /\ Len(result'[w].errors) > Len(result[w].errors) =>
                    LET d == docIdx[w] IN
                    /\ result'[w].errors = Append(result[w].errors,
                                                  <<result'[w].errors[Len(result'[w].errors)][1], d>>)
                    /\ IF d < Len(pdfs)
                       THEN pc'[w] = "check" /\ docIdx'[w] = d + 1
                       ELSE pc'[w] = "complete"]_vars

\* The first document failed and the second one was still handled.
C12_Witness ==
    \E w \in Workers :
        /\ pc[w] = "complete"
        /\ Len(pdfs) = 2
        /\ result[w].errors = << <<"document", 1>> >>
        /\ result[w].empty_docs = 1
        /\ flag[2] = "orchestrator"

\* C13: when the consumer has terminated on the shutdown sentinel, every work
\* item that producers put on the queue has been consumed: nothing is left
\* behind the sentinel, also when a producer was in the middle of a tender
\* when stop_gpu_worker put the sentinel.
C13_SentinelDrains ==
    \A w \in Workers : gpu[w] = "done" => queue[w] = <<>>

\* The consumer ended while the producer was inside a document whose first
\* batch had been enqueued, and that batch was embedded and stored.
C13_Witness ==
    \E w \in Workers :
        /\ gpu[w] = "done"
        /\ loop[w] = "join"
        /\ pc[w] = "batch"
        /\ start[w] > 0
        /\ <<0, runNo[docIdx[w]]>> \in recs[docIdx[w]]

\* C14: an embedding or persistence failure for one item does not stop the
\* consumer, which goes on to dequeue the next item: every item on the queue
\* is eventually dequeued.
C14_ConsumerSurvivesFailure ==
    \A w \in Workers : (queue[w] # <<>>) ~> (queue[w] = <<>>)

\* Of the two work items of a document's current run the first was dequeued
\* and lost to a failure and the second was dequeued and stored after it.
C14_Witness ==
    /\ \A w \in Workers : queue[w] = <<>> /\ gpu[w] = "run"
    /\ produced[1] = {0, 5}
    /\ recs[1] = {<<5, runNo[1]>>}

\* C15: the queue never holds more items than its capacity, and a batch with
\* chunks is left behind only by putting its work item on the queue (or by
\* the failure of the batch): a full queue holds the producer up, it does not
\* make it drop the item.
C15_QueueBounded ==
    [][\A w \in Workers :
          /\ Len(queue'[w]) <= QueueCap
          /\ (/\ pc[w] = "batch"
              /\ BatchHasChunks(pdfs[docIdx[w]], start[w])
              /\ <<pc'[w], docIdx'[w], start'[w]>> # <<pc[w], docIdx[w], start[w]>>
              /\ loop'[w] = "up"
              /\ result'[w].errors = result[w].errors)
             => queue'[w] = Append(queue[w],
                                   Item(docIdx[w], start[w],
                                        IsLast(pdfs[docIdx[w]], start[w])))]_vars

\* The queue is full and the producer has a work item to put.
C15_Witness ==
    \E w \in Workers :
        /\ Len(queue[w]) = QueueCap
        /\ loop[w] = "up"
        /\ pc[w] = "batch"
        /\ BatchHasChunks(pdfs[docIdx[w]], start[w])

\* The sub-chunks' data joined in sub-position order.
RECURSIVE Concat(_)
Concat(chs) == IF chs = <<>> THEN <<>> ELSE Head(chs).data \o Concat(Tail(chs))

\* The same with the last n characters of every sub-chunk but the last one
\* removed.
RECURSIVE ConcatWithoutTails(_, _)
ConcatWithoutTails(chs, n) ==
    IF Len(chs) <= 1 THEN Concat(chs)
    ELSE SubSeq(Head(chs).data, 1, Max(Len(Head(chs).data) - n, 0))
         \o ConcatWithoutTails(Tail(chs), n)

NonSpace(t) == SelectSeq(t, LAMBDA c : ~IsSpace(c))
HasText(t) == \E i \in 1..Len(t) : ~IsSpace(t[i])

\* d is t without its leading and trailing white space.
IsTrimOf(d, t) ==
    /\ d # <<>>
    /\ ~IsSpace(d[1]) /\ ~IsSpace(d[Len(d)])
    /\ \E i \in 0..Len(t) : \E j \in i..Len(t) :
          /\ d = SubSeq(t, i + 1, j)
          /\ \A k \in 1..Len(t) : (k <= i \/ k > j) => IsSpace(t[k])

\* The step is an iteration of the loop of split_text_to_subchunks.
Iterates == chunker'.iters = chunker.iters + 1

C17_StartIncreases ==
    [][Iterates => chunker'.start > chunker.start]_vars

\* C17, amended: for every window of at least one character and every
\* overlap, the start offset strictly increases with every iteration and the
\* loop makes at most len(text) iterations.
C17_StartIncreasesForWindow ==
    [][(Iterates /\ chunker.chunk_size >= 1) =>
            /\ chunker'.start > chunker.start
            /\ chunker'.iters <= Len(chunker.text)]_vars

\* A call with an overlap of at least the window that returned after three
\* or more iterations.
C17_Witness ==
    /\ chunker.pc = "done"
    /\ chunker.chunk_size >= 1
    /\ chunker.overlap >= chunker.chunk_size
    /\ chunker.iters >= 3

\* C18 as stated: a text shorter than the window gives exactly one sub-chunk,
\* with sub_position 1 and the whole trimmed text as data.
C18_OneChunk ==
    (chunker.pc = "done" /\ Len(chunker.text) < chunker.chunk_size) =>
        /\ Len(chunker.sub_chunks) = 1
        /\ chunker.sub_chunks[1] = SubChunk(1, Strip(chunker.text))

\* C18, amended: a text shorter than the window that is not blank gives
\* exactly one sub-chunk, with sub_position 1 and the whole trimmed text as
\* data; an empty or blank text gives no sub-chunk.
C18_OneChunkUnlessBlank ==
    (chunker.pc = "done" /\ Len(chunker.text) < chunker.chunk_size) =>
        IF HasText(chunker.text)
        THEN /\ Len(chunker.sub_chunks) = 1
             /\ chunker.sub_chunks[1].sub_position = 1
             /\ IsTrimOf(chunker.sub_chunks[1].data, chunker.text)
        ELSE chunker.sub_chunks = <<>>

\* A text shorter than the window whose only sub-chunk is shorter than it.
C18_Witness ==
    /\ chunker.pc = "done"
    /\ Len(chunker.text) < chunker.chunk_size
    /\ Len(chunker.sub_chunks) = 1
    /\ Len(chunker.sub_chunks[1].data) < Len(chunker.text)

\* C20: after a window that ends at `end`, the next window starts at
\* end - overlap when that is past the start of the window just emitted, and
\* at end otherwise.
C20_NextWindowOverlaps ==
    [][(Iterates /\ chunker'.pc = "loop") =>
            chunker'.start = IF chunker'.end - chunker.overlap > chunker.start
                             THEN chunker'.end - chunker.overlap
                             ELSE chunker'.end]_vars

\* The pages of the PDF that were classified as scanned.
ScannedPages == {i \in 1..Len(pdfrun.pages) : pdfrun.pages[i] = "scanned"}

\* C19: every scanned page goes through OCR and translation and yields
\* chunks with is_scanned = true; the reported scanned count is the number of
\* pages classified scanned and the digital count the number classified
\* digital.
C19_ScannedPagesProcessed ==
    pdfrun.pc = "done" =>
        /\ \A i \in ScannedPages :
              \E k \in 1..Len(pdfrun.all_sub_chunks) :
                  pdfrun.all_sub_chunks[k] = PageChunk(i, TRUE)
        /\ pdfrun.scanned_pages = Cardinality(ScannedPages)
        /\ pdfrun.regular_pages = Len(pdfrun.pages) - Cardinality(ScannedPages)

\* The batch size the rule gives a document: 20 pages when it has less than
\* 250 KB a page, 5 otherwise.
RuleSize(pdf) ==
    IF pdf.bytes < PageKBLimit * KB * pdf.pages THEN LargeBatch ELSE SmallBatch

\* C21: for a document with N > 0 pages the ranges have the rule's size, the
\* first starts at page 0, each starts where the one before ended, none is
\* empty or goes past page N, is_last is true on the range that ends at N and
\* on no other, and when the loop has run to its end the ranges cover pages
\* 0..N-1.
C21_BatchRanges ==
    ranger.pc # "none" =>
        LET r == ranger.ranges
            n == ranger.pdf.pages
        IN /\ \A i \in 1..Len(r) :
                 /\ r[i].start = (IF i = 1 THEN 0 ELSE r[i - 1].end)
                 /\ r[i].start < r[i].end /\ r[i].end <= n
                 /\ r[i].end - r[i].start = RuleSize(ranger.pdf) \/ r[i].end = n
                 /\ r[i].end - r[i].start <= RuleSize(ranger.pdf)
                 /\ r[i].is_last = (r[i].end = n)
                 /\ r[i].is_last => i = Len(r)
           /\ ranger.pc = "done" =>
                 /\ r # <<>>
                 /\ r[Len(r)].end = n
                 /\ r[Len(r)].is_last

\* A 41-page document just below 250 KB a page was batched to its end in
\* three ranges, the last one a single page.
C21_Witness ==
    /\ ranger.pc = "done"
    /\ ranger.pdf.pages = 41
    /\ Len(ranger.ranges) = 3
    /\ ranger.ranges[3] = PageRange(40, 41, TRUE)

\* The calls in flight: the tasks whose call is in the executor.
InFlight(tasks) == {j \in DOMAIN tasks : tasks[j] = "run"}

\* C22: at most 5 OCR calls and at most 10 translation calls are in flight
\* at any time, each limit on its own, and the translation call of a page
\* starts only after the OCR call of that page has returned.
C22_BoundedInFlight ==
    ocr.pc # "none" =>
        /\ Cardinality(InFlight(ocr.groq)) <= 5
        /\ Cardinality(InFlight(ocr.deepseek)) <= 10
        /\ \A j \in Jobs(ocr.n) : ocr.deepseek[j] # "wait" => ocr.groq[j] = "done"

\* Ten translation calls are in flight (more than the OCR limit) and an
\* eleventh task waits for the semaphore.
C22_Witness ==
    /\ ocr.pc = "deepseek"
    /\ Cardinality(InFlight(ocr.deepseek)) = 10
    /\ \E j \in Jobs(ocr.n) : ocr.deepseek[j] = "wait"

\* C23: the OCR call and the translation call of a scanned page are each
\* made at most 3 times, with a delay that grows with the attempt number; a
\* page's text is the error placeholder only after the 3 attempts of that
\* call, and every page whose workers have ended has produced its chunks,
\* whatever happened to its sibling pages.
C23_RetriedBeforePlaceholder ==
    scan.pc # "none" =>
        \A p \in DOMAIN scan.page :
            LET pg == scan.page[p] IN
            /\ pg.ocr_calls <= 3 /\ pg.attempt <= 3
            /\ pg.raw_content = "error" => pg.ocr_calls = 3
            /\ pg.translated_text = "error" => pg.attempt = 3
            /\ \A i \in 1..Len(pg.slept) : \A k \in 1..(i - 1) : pg.slept[k] < pg.slept[i]
            /\ pg.pc = "done" => pg.chunks

\* the lines of a text position, one element each
RECURSIVE Lines(_)
Lines(content) ==
    IF Len(content) <= 1 THEN <<content>>
    ELSE <<SubSeq(content, 1, 1)>> \o Lines(SubSeq(content, 3, Len(content)))

\* the elements a position stands for
ElementsOf(position) ==
    IF position.type = "text"
    THEN [k \in 1..Len(Lines(position.content)) |->
              [type |-> "text", content |-> Lines(position.content)[k]]]
    ELSE <<[type |-> "table", content |-> position.content]>>

RECURSIVE Flatten(_)
Flatten(positions) ==
    IF positions = <<>> THEN <<>>
    ELSE ElementsOf(Head(positions)) \o Flatten(Tail(positions))

\* C24: the positions returned are numbered 1..k in order; taken in order
\* they stand for exactly the input elements in input order, a text position
\* for a run of text elements joined by newlines and a table position for
\* one table element; no two adjacent positions are both text (the runs are
\* maximal).
C24_Positions ==
    posrun.pc = "done" =>
        LET positions == posrun.positions IN
        /\ \A k \in 1..Len(positions) : positions[k].position = k
        /\ Flatten(positions) = posrun.elements
        /\ \A k \in 1..Len(positions) :
              /\ positions[k].type \in {"text", "table"}
              /\ positions[k].type = "text" =>
                    \A m \in 1..Len(positions[k].content) :
                        (positions[k].content[m] = "\n") <=> (m % 2 = 0)
        /\ \A k \in 1..(Len(positions) - 1) :
              ~(positions[k].type = "text" /\ positions[k + 1].type = "text")

C24_Witness ==
    /\ posrun.pc = "done"
    /\ Len(posrun.elements) = 4
    /\ Len(posrun.positions) = 3
    /\ posrun.positions[1] = [type |-> "text", content |-> <<"a", "\n", "b">>, position |-> 1]
    /\ posrun.positions[2].type = "table"
    /\ posrun.positions[3].type = "text"

\* C25: a completion check that finds the flag of its document set skips
\* the document: skipped_docs grows by 1 and no other counter changes, no
\* record and no flag is touched, nothing is enqueued, and the orchestrator
\* goes on to the next document without the clean-up, the fetch or a batch
\* (a check that raises records an error instead and goes on as well).
C25_CompletedIsSkipped ==
    [][\A w \in Workers :
          (pc[w] = "check" /\ flag[docIdx[w]] # "unset"
              /\ <<pc[w], docIdx[w], result[w]>>' # <<pc[w], docIdx[w], result[w]>>)
          => /\ \/ /\ result'[w] = [result[w] EXCEPT !.skipped_docs = @ + 1]
                \/ /\ Len(result'[w].errors) = Len(result[w].errors) + 1
                   /\ result'[w].skipped_docs = result[w].skipped_docs
             /\ result'[w].processed_docs = result[w].processed_docs
             /\ result'[w].empty_docs = result[w].empty_docs
             /\ pc'[w] \in {"check", "complete"}
             /\ docIdx'[w] # docIdx[w]
             /\ UNCHANGED <<recs, flag, runNo, queue, task>>]_vars

C25_Witness ==
    \E w \in Workers :
        /\ result[w].skipped_docs = 1
        /\ result[w].errors = <<>>
        /\ flag[1] = "consumer"
        /\ recs[1] # {}
        /\ pc[w] \in {"check", "complete"}

\* C26: a completion flag that is set stays set, and from then on no record
\* of the document is removed.
C26_FlagIsStable ==
    [][\A d \in DocIds :
          flag[d] # "unset" => (flag'[d] # "unset" /\ recs[d] \subseteq recs'[d])]_vars

\* C27: on the step that makes a job completed, the embedding queue of the
\* worker holds no batch and its consumer is between tasks, and when the
\* result counts every listed document in processed_docs, each document has
\* its flag set and every batch it produced persisted.
C27_CompletedMeansEmbedded ==
    [][\A w \in Workers :
          (/\ pc[w] = "complete"
           /\ jobs[cur[w]].status # "completed"
           /\ jobs'[cur[w]].status = "completed")
          => /\ queue[w] = <<>>
             /\ task[w] = <<>>
             /\ result[w].processed_docs = Len(pdfs) =>
                   \A d \in 1..Len(pdfs) :
                       /\ flag[d] # "unset"
                       /\ \A b \in produced[d] : <<b, runNo[d]>> \in recs[d]]_vars

\* C28: the three counters of a result count different documents: their sum
\* never exceeds the number of documents the orchestrator has gone through,
\* so never the number of listed documents.
C28_CountedOnce ==
    \A w \in Workers :
        LET r == result[w]
            done == IF pc[w] \in DocPcs THEN docIdx[w] - 1
                    ELSE IF pc[w] \in {"complete", "ack", "except", "nack"} THEN Len(pdfs)
                    ELSE 0
        IN  /\ r.processed_docs + r.skipped_docs + r.empty_docs <= Len(pdfs)
            /\ r.processed_docs + r.skipped_docs <= done
            /\ r.skipped_docs + r.empty_docs <= Len(pdfs)

\* C29: a job's attempts counter changes on claim steps only, a successful
\* claim (pending to running) adds exactly 1 to it, and it never exceeds
\* MAX_ATTEMPTS.
C29_AttemptsCountClaims ==
    /\ [][\A j \in JobIds :
            jobs[j].status # "missing" =>
                LET claimed == jobs[j].status = "pending" /\ jobs'[j].status = "running" IN
                /\ jobs'[j].status # "missing"
                /\ claimed => jobs'[j].attempts = jobs[j].attempts + 1
                /\ ~claimed => jobs'[j].attempts = jobs[j].attempts]_vars
    /\ [](\A j \in JobIds : jobs[j].status # "missing" => jobs[j].attempts <= MAX_ATTEMPTS)

C29_Witness ==
    \E w \in Workers :
        /\ pc[w] = "start"
        /\ jobs[cur[w]].status = "running"
        /\ jobs[cur[w]].attempts = MAX_ATTEMPTS
        /\ attempts[w] = MAX_ATTEMPTS

\* C30: the orchestrator enters the batch loop of a document only by the
\* step that deleted the document's records, and enqueues batches of that
\* document only; a completion check or a deletion that fails records an
\* error, deletes and enqueues nothing, and moves on to a later document, so
\* no batch of the document is enqueued in that attempt.
C30_EnqueueAfterDelete ==
    [][\A w \in Workers :
          LET d == docIdx[w] IN
          /\ (pc[w] # "batch" /\ pc'[w] = "batch")
                => /\ pc[w] = "clean"
                   /\ docIdx'[w] = d
                   /\ recs'[d] = {}
                   /\ flag'[d] = "unset"
                   /\ runNo'[d] = runNo[d] + 1
                   /\ result'[w].errors = result[w].errors
          /\ (pc[w] = "batch" /\ pc'[w] = "batch") => docIdx'[w] = d
          /\ Len(queue'[w]) > Len(queue[w])
                => /\ pc[w] = "batch"
                   /\ queue'[w] = Append(queue[w], Item(d, start[w], IsLast(pdfs[d], start[w])))
                   /\ runNo[d] >= 1
          /\ (pc[w] \in {"check", "clean"} /\ docIdx'[w] # d)
                => docIdx'[w] = 0 \/ docIdx'[w] > d
          /\ (pc[w] \in {"check", "clean"}
                /\ Len(result'[w].errors) > Len(result[w].errors)
                /\ result'[w].errors[Len(result'[w].errors)][1] = "mongo_check")
                => /\ result'[w].errors = Append(result[w].errors, <<"mongo_check", d>>)
                   /\ docIdx'[w] # d
                   /\ pc'[w] \in {"check", "complete"}
                   /\ UNCHANGED <<recs, flag, runNo, queue>>]_vars

C30_Witness ==
    \E w \in Workers :
        /\ result[w].errors = <<<<"mongo_check", 2>>>>
        /\ pc[w] = "complete"
        /\ runNo = <<1, 0>>
        /\ queue[w] = <<[doc |-> 1, start |-> 0, is_last |-> TRUE, run |-> 1]>>

\* C31: a job row whose status is completed or failed is never written
\* again: status, attempts, result and last_error stay as they are, whatever
\* messages are delivered for its id afterwards.
C31_TerminalIsFinal ==
    [][\A j \in JobIds :
          jobs[j].status \in {"completed", "failed"} => jobs'[j] = jobs[j]]_vars

\* C31's case: a message for a job that failed after its last attempt was
\* delivered and dropped, the row being as fail_job left it.
C31_Witness ==
    \E w \in Workers :
        /\ pc[w] = "drop"
        /\ jobs[cur[w]].status = "failed"
        /\ jobs[cur[w]].attempts = MAX_ATTEMPTS
        /\ jobs[cur[w]].last_error = "error"
        /\ jobs[cur[w]].python_result = <<>>
        /\ \A v \in Workers \ {w} : pc[v] = "idle"

=============================================================================
